---- MODULE Spec2Model ----
(***************************************************************************)
(* Model of streamlit_app.py, the Law Enforcement Crime Dashboard: one     *)
(* top-to-bottom run of the script over an uploaded Boston crime CSV.      *)
(*                                                                         *)
(* A table is a sequence of rows; a row is a record with one field per     *)
(* CSV column plus idx, the pandas index label read_csv gives it.  A cell  *)
(* is <<>> when the value is missing (NaN/NaT) and <<v>> when present.     *)
(* A timestamp is a number of hours; its calendar day is ts \div 24.       *)
(***************************************************************************)
EXTENDS Integers, Sequences, FiniteSets, TLC

\* ------------------------------------------------------------------ bounds
\* Rows of an uploaded file in the full-pipeline specification.
MaxRows == 2
\* Rows and day span of the filtered table in the daily-trend specification.
MaxTrendRows == 4
MaxTrendDay == 8
\* Offense categories, size of a frequent category and rows without a
\* category in the offense-breakdown specification.
NumCats == 11
HeavyCount == 2
MaxNullRows == 1
\* Rows of the filtered table in the map specification, the sample cap scaled
\* to it (the script's cap is 4000), and the states of numpy's global generator.
MaxGeoRows == 5
GeoCap == 2
MaxNpState == 2

\* ------------------------------------------------------ program constants
RollingWindow == 7
MinPeriods == 1
TopN == 10
RandomSeed == 42

\* ------------------------------------------------------------------ cells
NaN == <<>>
isna(c) == c = <<>>
notna(c) == c # <<>>
\* series == "literal": False on a missing cell
EqCell(c, s) == notna(c) /\ c[1] = s
\* series != "literal": True on a missing cell
NeCell(c, s) == isna(c) \/ c[1] # s

Range(s) == {s[i] : i \in DOMAIN s}

RECURSIVE SumSeq(_)
SumSeq(s) == IF s = <<>> THEN 0 ELSE Head(s) + SumSeq(Tail(s))

SetMin(S) == CHOOSE x \in S : \A y \in S : x <= y
SetMax(S) == CHOOSE x \in S : \A y \in S : x >= y

\* --------------------------------------------------------------- columns
RequiredColumns ==
    {"OCCURRED_ON_DATE", "DISTRICT", "OFFENSE_CODE_GROUP", "UCR_PART",
     "SHOOTING", "Lat", "Long"}

\* District and offense labels, each listed in ascending (sorted()) order.
DistrictLabels == <<"A1", "B2">>
OffenseLabels ==
    <<"Aggravated Assault", "Auto Theft", "Ballistics", "Burglary",
      "Drug Violation", "Fraud", "Harassment", "Larceny",
      "Medical Assistance", "Robbery", "Simple Assault", "Towed",
      "Vandalism">>

\* The labels of S in ascending order.
RECURSIVE SortedLabels(_, _)
SortedLabels(labels, S) ==
    IF labels = <<>> THEN <<>>
    ELSE (IF Head(labels) \in S THEN <<Head(labels)>> ELSE <<>>)
         \o SortedLabels(Tail(labels), S)

\* Series.dt.date of a parsed timestamp cell
dt_date(c) == c[1] \div 24

\* ------------------------------------------------------------ input files
BaseRow ==
    [OCCURRED_ON_DATE |-> <<24>>, DISTRICT |-> <<"A1">>,
     OFFENSE_CODE_GROUP |-> <<"Larceny">>, UCR_PART |-> <<"Part One">>,
     SHOOTING |-> <<"Y">>, Lat |-> <<42>>, Long |-> <<-71>>]

\* CSV rows of the full-pipeline specification: the base row, and the rows
\* that differ from it in one of the four columns the filters read.
CsvRows ==
    {BaseRow}
    \cup {[BaseRow EXCEPT !.OCCURRED_ON_DATE = d] : d \in {NaN, <<47>>, <<48>>, <<71>>}}
    \cup {[BaseRow EXCEPT !.DISTRICT = d] : d \in {NaN, <<"B2">>}}
    \cup {[BaseRow EXCEPT !.UCR_PART = u] : u \in {NaN, <<"Part Two">>}}
    \cup {[BaseRow EXCEPT !.SHOOTING = s] : s \in {NaN, <<"">>}}

SeqsUpTo(S, n) == UNION {[1..k -> S] : k \in 0..n}

\* An uploaded file: the columns of its header and its data rows.
Files ==
    {[columns |-> RequiredColumns, rows |-> t] : t \in SeqsUpTo(CsvRows, MaxRows)}
    \cup {[columns |-> RequiredColumns \ {c}, rows |-> <<r>>] :
             c \in RequiredColumns, r \in CsvRows}

\* ---------------------------------------------------------------- state
VARIABLES
    pc,                 \* the statement the run is at
    uploaded_file,      \* <<>> (None) or <<file>>
    df,                 \* the loaded table
    date_range,         \* what st.sidebar.date_input returned
    start_date,
    end_date,
    selected_districts,
    ucr_filter,
    shooting_filter,
    filtered,
    kpi,
    daily_counts,
    dist_counts,
    pie_data,
    geo,
    out,                \* what the page shows so far, in order
    exc,                \* the exception that ended the run, "" if none
    np_global,          \* state of numpy's global generator
    runs,               \* script runs started in this session
    prev_geo            \* the map sample of the previous run

vars ==
    <<pc, uploaded_file, df, date_range, start_date, end_date,
      selected_districts, ucr_filter, shooting_filter, filtered, kpi,
      daily_counts, dist_counts, pie_data, geo, out, exc, np_global, runs,
      prev_geo>>

widgets == <<date_range, start_date, end_date, selected_districts, ucr_filter, shooting_filter>>
views == <<kpi, daily_counts, dist_counts, pie_data, geo>>
session == <<uploaded_file, np_global, runs, prev_geo>>

columns == uploaded_file[1].columns

NoTuple == [tuple |-> TRUE, items |-> <<>>]
NoKpi == [total |-> 0, part_one |-> 0, part_two |-> 0, shootings |-> 0]

\* The state before the first statement of a run.
Fresh ==
    /\ pc = "start"
    /\ df = <<>>
    /\ date_range = NoTuple
    /\ start_date = 0
    /\ end_date = 0
    /\ selected_districts = {}
    /\ ucr_filter = "All"
    /\ shooting_filter = "All"
    /\ filtered = <<>>
    /\ kpi = NoKpi
    /\ daily_counts = <<>>
    /\ dist_counts = <<>>
    /\ pie_data = <<>>
    /\ geo = <<>>
    /\ out = <<>>
    /\ exc = ""

Init ==
    /\ Fresh
    /\ uploaded_file \in {<<>>} \cup {<<f>> : f \in Files}
    /\ np_global = 0
    /\ runs = 1
    /\ prev_geo = <<>>

\* An uncaught exception: Streamlit shows it and the run ends.
Raise(kind) ==
    /\ pc' = "error"
    /\ exc' = kind
    /\ out' = Append(out, "exception")

\* ------------------------------------------------------------- ingestion
\* pd.read_csv: the data rows, labelled 0, 1, 2, ... in file order
read_csv(file) ==
    [i \in DOMAIN file.rows |->
        [idx |-> i - 1,
         OCCURRED_ON_DATE |-> file.rows[i].OCCURRED_ON_DATE,
         DISTRICT |-> file.rows[i].DISTRICT,
         OFFENSE_CODE_GROUP |-> file.rows[i].OFFENSE_CODE_GROUP,
         UCR_PART |-> file.rows[i].UCR_PART,
         SHOOTING |-> file.rows[i].SHOOTING,
         Lat |-> file.rows[i].Lat,
         Long |-> file.rows[i].Long]]

\* df.dropna(subset=["OCCURRED_ON_DATE"])
load_data(file) ==
    SelectSeq(read_csv(file), LAMBDA r : notna(r.OCCURRED_ON_DATE))

\* lines 24-36: the uploader, the "please upload" stop, and the load
Load ==
    /\ pc = "start"
    /\ IF uploaded_file = <<>>
       THEN /\ out' = Append(out, "info_upload")
            /\ pc' = "stopped"
            /\ UNCHANGED <<df, exc>>
       ELSE IF "OCCURRED_ON_DATE" \notin columns
       THEN /\ Raise("ValueError")
            /\ UNCHANGED df
       ELSE /\ df' = load_data(uploaded_file[1])
            /\ pc' = "date_input"
            /\ UNCHANGED <<out, exc>>
    /\ UNCHANGED <<widgets, filtered, views, session>>

\* --------------------------------------------------------------- widgets
Dates(t) == {dt_date(t[i].OCCURRED_ON_DATE) : i \in DOMAIN t}

\* What a date_input created with a (min, max) tuple can return: the range
\* the user picked, or a 1-tuple while only the start has been picked.
DateInputValues(lo, hi) ==
    {[tuple |-> TRUE, items |-> <<s, e>>] : s \in lo..hi, e \in lo..hi}
    \cup {[tuple |-> TRUE, items |-> <<s>>] : s \in lo..hi}

\* lines 41-49: min_date, max_date and the date range widget
DateInput ==
    /\ pc = "date_input"
    /\ IF df = <<>>
       THEN /\ Raise("StreamlitAPIException")
            /\ UNCHANGED date_range
       ELSE /\ \E v \in DateInputValues(SetMin(Dates(df)), SetMax(Dates(df))) :
                 /\ Len(v.items) = 2 => v.items[1] <= v.items[2]
                 /\ date_range' = v
            /\ pc' = "unpack"
            /\ UNCHANGED <<out, exc>>
    /\ UNCHANGED <<df, start_date, end_date, selected_districts, ucr_filter,
                   shooting_filter, filtered, views, session>>

\* lines 52-55: whether the unpacking succeeds, and what it assigns
CanUnpack(v) == v.tuple => Len(v.items) = 2
UnpackStart(v) == IF v.tuple THEN v.items[1] ELSE v.date
UnpackEnd(v) == IF v.tuple THEN v.items[2] ELSE v.date

Unpack ==
    /\ pc = "unpack"
    /\ IF CanUnpack(date_range)
       THEN /\ start_date' = UnpackStart(date_range)
            /\ end_date' = UnpackEnd(date_range)
            /\ pc' = "sidebar"
            /\ UNCHANGED <<out, exc>>
       ELSE /\ Raise("ValueError")
            /\ UNCHANGED <<start_date, end_date>>
    /\ UNCHANGED <<df, date_range, selected_districts, ucr_filter,
                   shooting_filter, filtered, views, session>>

\* line 58: the options of the district multiselect
districts(t) == {t[i].DISTRICT[1] : i \in {j \in DOMAIN t : notna(t[j].DISTRICT)}}

UcrOptions == {"All", "Part One only", "Part Two only"}
ShootingOptions == {"All", "Shooting only", "Non-shooting only"}

\* lines 58-77: the district multiselect and the two radio buttons
Sidebar ==
    /\ pc = "sidebar"
    /\ IF "DISTRICT" \notin columns
       THEN /\ Raise("KeyError")
            /\ UNCHANGED <<selected_districts, ucr_filter, shooting_filter>>
       ELSE /\ selected_districts' \in SUBSET districts(df)
            /\ ucr_filter' \in UcrOptions
            /\ shooting_filter' \in ShootingOptions
            /\ pc' = "mask"
            /\ UNCHANGED <<out, exc>>
    /\ UNCHANGED <<df, date_range, start_date, end_date, filtered, views, session>>

\* ---------------------------------------------------------------- filter
\* DateMask had it compared the timestamps, not their date part, with the
\* midnights of the two dates.
DateMask_timestamps(t, lo, hi) ==
    [i \in DOMAIN t |->
        t[i].OCCURRED_ON_DATE[1] >= 24 * lo /\ t[i].OCCURRED_ON_DATE[1] <= 24 * hi]

\* lines 80-81: the date mask, both ends inclusive, on the date part
DateMask(t, lo, hi) ==
    [i \in DOMAIN t |->
        dt_date(t[i].OCCURRED_ON_DATE) >= lo /\ dt_date(t[i].OCCURRED_ON_DATE) <= hi]

\* Series.isin(values): False on a missing cell
isin(c, values) == notna(c) /\ c[1] \in values

\* DistrictMask without the test for an empty selection.
DistrictMask_always(mask, t, selected) ==
    [i \in DOMAIN t |-> mask[i] /\ isin(t[i].DISTRICT, selected)]

\* lines 84-85
DistrictMask(mask, t, selected) ==
    IF selected # {}
    THEN [i \in DOMAIN t |-> mask[i] /\ isin(t[i].DISTRICT, selected)]
    ELSE mask

\* lines 88-91
UcrMask(mask, t, choice) ==
    IF choice = "Part One only"
    THEN [i \in DOMAIN t |-> mask[i] /\ EqCell(t[i].UCR_PART, "Part One")]
    ELSE IF choice = "Part Two only"
    THEN [i \in DOMAIN t |-> mask[i] /\ EqCell(t[i].UCR_PART, "Part Two")]
    ELSE mask

\* ShootingMask had "Non-shooting only" tested for a missing value alone.
ShootingMask_missing_only(mask, t, choice) ==
    IF choice = "Shooting only"
    THEN [i \in DOMAIN t |->
             mask[i] /\ (notna(t[i].SHOOTING) /\ NeCell(t[i].SHOOTING, ""))]
    ELSE IF choice = "Non-shooting only"
    THEN [i \in DOMAIN t |-> mask[i] /\ isna(t[i].SHOOTING)]
    ELSE mask

\* lines 94-97
ShootingMask(mask, t, choice) ==
    IF choice = "Shooting only"
    THEN [i \in DOMAIN t |->
             mask[i] /\ (notna(t[i].SHOOTING) /\ NeCell(t[i].SHOOTING, ""))]
    ELSE IF choice = "Non-shooting only"
    THEN [i \in DOMAIN t |->
             mask[i] /\ (isna(t[i].SHOOTING) \/ EqCell(t[i].SHOOTING, ""))]
    ELSE mask

\* df.loc[mask]: the rows whose mask entry is True, in table order
RECURSIVE loc(_, _)
loc(t, mask) ==
    IF t = <<>> THEN <<>>
    ELSE (IF mask[1] THEN <<Head(t)>> ELSE <<>>)
         \o loc(Tail(t), [i \in 1..(Len(t) - 1) |-> mask[i + 1]])

\* lines 80-99
FilterRows(t, lo, hi, selected, ucr, shooting) ==
    loc(t, ShootingMask(UcrMask(DistrictMask(DateMask(t, lo, hi), t, selected),
                                t, ucr),
                        t, shooting))

\* lines 80-101: the mask, the filtered copy and the record count
Filter ==
    /\ pc = "mask"
    /\ IF \/ (ucr_filter # "All" /\ "UCR_PART" \notin columns)
          \/ (shooting_filter # "All" /\ "SHOOTING" \notin columns)
       THEN /\ Raise("KeyError")
            /\ UNCHANGED filtered
       ELSE /\ filtered' = FilterRows(df, start_date, end_date, selected_districts,
                                      ucr_filter, shooting_filter)
            /\ out' = Append(out, "records")
            /\ pc' = "guard"
            /\ UNCHANGED exc
    /\ UNCHANGED <<df, widgets, views, session>>

\* The guard without its st.stop().
StopsOnEmpty_never(t) == FALSE

\* line 103: whether the run stops on the filtered table
StopsOnEmpty(t) == t = <<>>

\* lines 103-105: the empty-result notice and st.stop()
EmptyGuard ==
    /\ pc = "guard"
    /\ IF StopsOnEmpty(filtered)
       THEN /\ out' = Append(out, "warning")
            /\ pc' = "stopped"
       ELSE /\ pc' = "kpi"
            /\ UNCHANGED out
    /\ UNCHANGED <<df, widgets, filtered, views, exc, session>>

\* ------------------------------------------------------------------ KPIs
\* lines 110-113
KpiOf(t) ==
    [total |-> Len(t),
     part_one |-> Cardinality({i \in DOMAIN t : EqCell(t[i].UCR_PART, "Part One")}),
     part_two |-> Cardinality({i \in DOMAIN t : EqCell(t[i].UCR_PART, "Part Two")}),
     shootings |-> Cardinality({i \in DOMAIN t :
                                  notna(t[i].SHOOTING) /\ NeCell(t[i].SHOOTING, "")})]

\* lines 110-119
Kpis ==
    /\ pc = "kpi"
    /\ IF "UCR_PART" \notin columns \/ "SHOOTING" \notin columns
       THEN /\ Raise("KeyError")
            /\ UNCHANGED kpi
       ELSE /\ kpi' = KpiOf(filtered)
            /\ out' = Append(out, "kpi")
            /\ pc' = "trend"
            /\ UNCHANGED exc
    /\ UNCHANGED <<df, widgets, filtered, daily_counts, dist_counts, pie_data,
                   geo, session>>

\* ----------------------------------------------------------- daily trend
\* resample_size had the script grouped by day: only days with rows.
resample_size_groupby(t) ==
    LET days == {d \in SetMin(Dates(t))..SetMax(Dates(t)) : d \in Dates(t)}
        nth(k) == CHOOSE d \in days : Cardinality({e \in days : e < d}) = k - 1
    IN  [k \in 1..Cardinality(days) |->
            [date |-> nth(k),
             count |-> Cardinality({i \in DOMAIN t :
                                      dt_date(t[i].OCCURRED_ON_DATE) = nth(k)})]]

\* lines 128-134: set_index / resample("D") / size: one bin per calendar day
\* from the first to the last day of the table, empty days included
resample_size(t) ==
    LET lo == SetMin(Dates(t))
        hi == SetMax(Dates(t))
    IN  [k \in 1..(hi - lo + 1) |->
            [date |-> lo + k - 1,
             count |-> Cardinality({i \in DOMAIN t :
                                      dt_date(t[i].OCCURRED_ON_DATE) = lo + k - 1})]]

DailyCounts ==
    /\ pc = "trend"
    /\ daily_counts' = resample_size(filtered)
    /\ pc' = "rolling"
    /\ UNCHANGED <<df, widgets, filtered, kpi, dist_counts, pie_data, geo, out,
                   exc, session>>

\* line 135: rolling(window, min_periods).mean() as pandas computes it, one
\* pass that adds the entering value and removes the leaving one; a mean is
\* the exact fraction num/den, and a window of fewer than min_periods values
\* gives a missing cell
RECURSIVE roll_mean(_, _, _, _)
roll_mean(x, i, sum_x, nobs) ==
    IF i > Len(x) THEN <<>>
    ELSE LET leaving == i > RollingWindow
             s == sum_x + x[i] - (IF leaving THEN x[i - RollingWindow] ELSE 0)
             n == IF leaving THEN nobs ELSE nobs + 1
         IN  <<IF n >= MinPeriods THEN <<[num |-> s, den |-> n]>> ELSE NaN>>
             \o roll_mean(x, i + 1, s, n)

\* rolling_mean had the short windows been padded with zeros.
rolling_mean_zero_padded(x) ==
    [k \in DOMAIN x |->
        <<[num |-> roll_mean(x, 1, 0, 0)[k][1].num, den |-> RollingWindow]>>]

rolling_mean(x) == roll_mean(x, 1, 0, 0)

with_rolling(dc) ==
    LET r == rolling_mean([k \in DOMAIN dc |-> dc[k].count])
    IN  [k \in DOMAIN dc |->
            [date |-> dc[k].date, count |-> dc[k].count, rolling_7d |-> r[k]]]

\* lines 135-137
Rolling7d ==
    /\ pc = "rolling"
    /\ daily_counts' = with_rolling(daily_counts)
    /\ out' = Append(out, "line_chart")
    /\ pc' = "district"
    /\ UNCHANGED <<df, widgets, filtered, kpi, dist_counts, pie_data, geo, exc,
                   session>>

\* ------------------------------------------------------ categorical counts
\* groupby(column).size(): one entry per label that occurs, labels ascending;
\* rows whose cell is missing belong to no group
group_size(cells, labels) ==
    LET present == {cells[i][1] : i \in {j \in DOMAIN cells : notna(cells[j])}}
        keys == SortedLabels(labels, present)
    IN  [k \in DOMAIN keys |->
            [key |-> keys[k],
             count |-> Cardinality({i \in DOMAIN cells : EqCell(cells[i], keys[k])})]]

\* lines 144-152
DistCountsOf(t) == group_size([i \in DOMAIN t |-> t[i].DISTRICT], DistrictLabels)

\* lines 144-154
DistrictCounts ==
    /\ pc = "district"
    /\ dist_counts' = DistCountsOf(filtered)
    /\ out' = Append(out, "bar_chart")
    /\ pc' = "offense"
    /\ UNCHANGED <<df, widgets, filtered, kpi, daily_counts, pie_data, geo, exc,
                   session>>

\* sort_values("count", ascending=False); entries of equal count keep their order
RECURSIVE InsertDesc(_, _)
InsertDesc(e, s) ==
    IF s = <<>> THEN <<e>>
    ELSE IF Head(s).count >= e.count THEN <<Head(s)>> \o InsertDesc(e, Tail(s))
    ELSE <<e>> \o s

RECURSIVE sort_values_desc(_)
sort_values_desc(s) ==
    IF s = <<>> THEN <<>>
    ELSE InsertDesc(s[Len(s)], sort_values_desc(SubSeq(s, 1, Len(s) - 1)))

head(s, n) == SubSeq(s, 1, IF Len(s) < n THEN Len(s) ELSE n)

\* lines 161-167
offense_counts_full(t) ==
    sort_values_desc(group_size([i \in DOMAIN t |-> t[i].OFFENSE_CODE_GROUP],
                                OffenseLabels))

\* others_count without the subtraction of the top 10.
others_count_not_reduced(full, top) ==
    SumSeq([k \in DOMAIN full |-> full[k].count])

\* line 176
others_count(full, top) ==
    SumSeq([k \in DOMAIN full |-> full[k].count])
    - SumSeq([k \in DOMAIN top |-> top[k].count])

\* lines 173-188
pie_data_of(full) ==
    LET top10 == head(full, TopN)
        others == others_count(full, top10)
    IN  sort_values_desc(IF others > 0
                         THEN Append(top10, [key |-> "Others", count |-> others])
                         ELSE top10)

\* lines 161-202
OffenseBreakdown ==
    /\ pc = "offense"
    /\ IF "OFFENSE_CODE_GROUP" \notin columns
       THEN /\ Raise("KeyError")
            /\ UNCHANGED pie_data
       ELSE /\ IF offense_counts_full(filtered) = <<>>
               THEN /\ out' = Append(out, "info_offense")
                    /\ UNCHANGED pie_data
               ELSE /\ pie_data' = pie_data_of(offense_counts_full(filtered))
                    /\ out' = Append(out, "pie")
            /\ pc' = "geo"
            /\ UNCHANGED exc
    /\ UNCHANGED <<df, widgets, filtered, kpi, daily_counts, dist_counts, geo,
                   session>>

\* ------------------------------------------------------------------- map
\* numpy's generator, abstracted to a 16-bit linear congruential generator:
\* the state a seed gives, and the step between two draws
seed_state(seed) == seed % 65537
next_state(s) == (75 * s + 74) % 65537

swap(x, i, j) == [x EXCEPT ![i] = x[j], ![j] = x[i]]

\* RandomState.shuffle: for i from the last position down to the second, swap
\* position i with a drawn position of 1..i
RECURSIVE shuffle(_, _, _)
shuffle(x, i, s) ==
    IF i < 2 THEN [items |-> x, state |-> s]
    ELSE shuffle(swap(x, i, 1 + (s % i)), i - 1, next_state(s))

\* RandomState.permutation(n)
permutation(n, s) == shuffle([k \in 1..n |-> k], n, s)

\* sample had it drawn from numpy's global generator, which moves on.
sample_from_global(t, n, seed, g) ==
    LET p == permutation(Len(t), g)
    IN  [rows |-> [k \in 1..n |-> t[p.items[k]]], np |-> p.state]

\* DataFrame.sample(n, random_state=seed): a generator of its own, seeded with
\* seed, draws the positions; numpy's global generator g is left as it is
sample(t, n, seed, g) ==
    LET p == permutation(Len(t), seed_state(seed))
    IN  [rows |-> [k \in 1..n |-> t[p.items[k]]], np |-> g]

\* line 209
dropna_coords(t) == SelectSeq(t, LAMBDA r : notna(r.Lat) /\ notna(r.Long))

\* lines 209-213
geo_sample(t, g) ==
    LET located == dropna_coords(t)
    IN  IF Len(located) > GeoCap
        THEN sample(located, GeoCap, RandomSeed, g)
        ELSE [rows |-> located, np |-> g]

\* lines 209-275
GeoMap ==
    /\ pc = "geo"
    /\ IF "Lat" \notin columns \/ "Long" \notin columns
       THEN /\ Raise("KeyError")
            /\ UNCHANGED <<geo, np_global>>
       ELSE /\ geo' = geo_sample(filtered, np_global).rows
            /\ np_global' = geo_sample(filtered, np_global).np
            /\ out' = Append(out, IF geo_sample(filtered, np_global).rows = <<>>
                                  THEN "info_geo" ELSE "map")
            /\ pc' = "done"
            /\ UNCHANGED exc
    /\ UNCHANGED <<df, widgets, filtered, kpi, daily_counts, dist_counts,
                   pie_data, uploaded_file, runs, prev_geo>>

Next ==
    \/ Load
    \/ DateInput
    \/ Unpack
    \/ Sidebar
    \/ Filter
    \/ EmptyGuard
    \/ Kpis
    \/ DailyCounts
    \/ Rolling7d
    \/ DistrictCounts
    \/ OffenseBreakdown
    \/ GeoMap

\* One run of the script over any upload, with any widget values.
Spec == Init /\ [][Next]_vars

\* ------------------------------------------------- runs stopped mid-script
\* The page above a section, for a run that reached it.
OutBefore(stage, t) ==
    IF stage = "trend" THEN <<"records", "kpi">>
    ELSE IF stage = "offense" THEN <<"records", "kpi", "line_chart", "bar_chart">>
    ELSE <<"records", "kpi", "line_chart", "bar_chart",
           IF offense_counts_full(t) = <<>> THEN "info_offense" ELSE "pie">>

\* The state of a run over file f, every widget left at its default (the whole
\* date range, every district, "All", "All"), when it reaches a section.
AtSection(stage, f) ==
    LET t == load_data(f)
        lo == SetMin(Dates(t))
        hi == SetMax(Dates(t))
        shown == FilterRows(t, lo, hi, districts(t), "All", "All")
    IN  /\ pc = stage
        /\ uploaded_file = <<f>>
        /\ df = t
        /\ date_range = [tuple |-> TRUE, items |-> <<lo, hi>>]
        /\ start_date = lo
        /\ end_date = hi
        /\ selected_districts = districts(t)
        /\ ucr_filter = "All"
        /\ shooting_filter = "All"
        /\ filtered = shown
        /\ kpi = KpiOf(shown)
        /\ daily_counts = IF stage = "trend" THEN <<>>
                          ELSE with_rolling(resample_size(shown))
        /\ dist_counts = IF stage = "trend" THEN <<>> ELSE DistCountsOf(shown)
        /\ pie_data = IF stage = "geo" /\ offense_counts_full(shown) # <<>>
                      THEN pie_data_of(offense_counts_full(shown)) ELSE <<>>
        /\ geo = <<>>
        /\ out = OutBefore(stage, shown)
        /\ exc = ""

AllColumns(rows) == [columns |-> RequiredColumns, rows |-> rows]

\* Daily trend: files whose rows fall on days 1..MaxTrendDay, at 13:00.
TrendFiles ==
    {AllColumns(t) :
        t \in SeqsUpTo({[BaseRow EXCEPT !.OCCURRED_ON_DATE = <<24 * d + 13>>] :
                           d \in 1..MaxTrendDay}, MaxTrendRows) \ {<<>>}}

InitTrend ==
    /\ \E f \in TrendFiles : AtSection("trend", f)
    /\ np_global = 0
    /\ runs = 1
    /\ prev_geo = <<>>

NextTrend ==
    \/ DailyCounts
    \/ Rolling7d

SpecTrend == InitTrend /\ [][NextTrend]_vars

\* Offense breakdown: files in which the first k categories occur, each in one
\* row except at most two that fill HeavyCount rows, after up to MaxNullRows
\* rows with no category.
OffenseProfiles ==
    UNION {{[c \in 1..NumCats |->
                IF c > k THEN 0 ELSE IF c \in H THEN HeavyCount ELSE 1] :
              H \in {X \in SUBSET (1..k) : Cardinality(X) <= 2}} :
           k \in 0..NumCats}

RECURSIVE Repeat(_, _)
Repeat(r, n) == IF n = 0 THEN <<>> ELSE <<r>> \o Repeat(r, n - 1)

RECURSIVE OffenseRows(_, _)
OffenseRows(profile, c) ==
    IF c > NumCats THEN <<>>
    ELSE Repeat([BaseRow EXCEPT !.OFFENSE_CODE_GROUP = <<OffenseLabels[c]>>],
                profile[c])
         \o OffenseRows(profile, c + 1)

OffenseFiles ==
    {AllColumns(Repeat([BaseRow EXCEPT !.OFFENSE_CODE_GROUP = NaN], n)
                \o OffenseRows(p, 1)) :
        p \in OffenseProfiles, n \in 0..MaxNullRows}
    \ {AllColumns(<<>>)}

InitOffense ==
    /\ \E f \in OffenseFiles : AtSection("offense", f)
    /\ np_global = 0
    /\ runs = 1
    /\ prev_geo = <<>>

NextOffense ==
    \/ OffenseBreakdown

SpecOffense == InitOffense /\ [][NextOffense]_vars

\* Map: files whose rows have or lack each coordinate, run twice with the same
\* upload and the same widget values.
GeoFiles ==
    {AllColumns(t) :
        t \in SeqsUpTo({[BaseRow EXCEPT !.Lat = la, !.Long = lo] :
                           la \in {NaN, <<42>>}, lo \in {NaN, <<-71>>}},
                       MaxGeoRows) \ {<<>>}}

InitGeo ==
    /\ \E f \in GeoFiles : AtSection("geo", f)
    /\ np_global \in 0..MaxNpState
    /\ runs = 1
    /\ prev_geo = <<>>

\* Streamlit runs the script again with the same upload and the same widget
\* values: everything above the map section is recomputed to the same values.
Rerun ==
    /\ pc = "done"
    /\ runs = 1
    /\ runs' = runs + 1
    /\ prev_geo' = geo
    /\ geo' = <<>>
    /\ out' = SubSeq(out, 1, Len(out) - 1)
    /\ pc' = "geo"
    /\ UNCHANGED <<df, widgets, filtered, kpi, daily_counts, dist_counts,
                   pie_data, exc, uploaded_file, np_global>>

NextGeo ==
    \/ GeoMap
    \/ Rerun

SpecGeo == InitGeo /\ [][NextGeo]_vars

\* ================================================================ claims
\* The run has produced its filtered table (line 101 has written the count).
PostMask == "records" \in Range(out)

PassesDate(r) ==
    start_date <= dt_date(r.OCCURRED_ON_DATE) /\ dt_date(r.OCCURRED_ON_DATE) <= end_date

PassesDistrict(r) ==
    selected_districts # {} =>
        \E d \in selected_districts : r.DISTRICT = <<d>>

PassesUcr(r) ==
    /\ ucr_filter = "Part One only" => r.UCR_PART = <<"Part One">>
    /\ ucr_filter = "Part Two only" => r.UCR_PART = <<"Part Two">>

IsShooting(r) == r.SHOOTING \notin {NaN, <<"">>}

PassesShooting(r) ==
    /\ shooting_filter = "Shooting only" => IsShooting(r)
    /\ shooting_filter = "Non-shooting only" => ~IsShooting(r)

IdxAscending(t) == \A i, j \in DOMAIN t : i < j => t[i].idx < t[j].idx

\* C1: the filtered table is exactly the rows of the loaded table, whole and
\* in their original order, that pass every active predicate: date part within
\* [start, end] inclusive, district in a non-empty selection, UCR_PART equal
\* to the chosen part, and the shooting predicate.
C1_FilteredIsExactSelection ==
    PostMask =>
        /\ \A i \in DOMAIN filtered :
              /\ filtered[i] \in Range(df)
              /\ PassesDate(filtered[i]) /\ PassesDistrict(filtered[i])
              /\ PassesUcr(filtered[i]) /\ PassesShooting(filtered[i])
        /\ \A j \in DOMAIN df :
              (PassesDate(df[j]) /\ PassesDistrict(df[j])
               /\ PassesUcr(df[j]) /\ PassesShooting(df[j]))
              => df[j] \in Range(filtered)
        /\ IdxAscending(filtered)

\* A row late on the end date is kept while a row of the next day is dropped.
C1_Witness ==
    /\ PostMask
    /\ end_date = 1
    /\ \E i \in DOMAIN filtered : filtered[i].OCCURRED_ON_DATE = <<47>>
    /\ \E j \in DOMAIN df : df[j].OCCURRED_ON_DATE = <<48>>
    /\ Len(filtered) = 1

\* C2: with no district selected the result is the one the other three
\* predicates give alone, rows without a district included; with a selection,
\* every surviving row has a district and it is a selected one.
C2_EmptyDistrictSelectionIsNoConstraint ==
    PostMask =>
        /\ selected_districts = {} =>
              /\ filtered = loc(df, ShootingMask(UcrMask(DateMask(df, start_date, end_date),
                                                         df, ucr_filter),
                                                 df, shooting_filter))
              /\ \A j \in DOMAIN df :
                    (PassesDate(df[j]) /\ PassesUcr(df[j]) /\ PassesShooting(df[j]))
                    => df[j] \in Range(filtered)
        /\ selected_districts # {} =>
              \A i \in DOMAIN filtered :
                  /\ filtered[i].DISTRICT # NaN
                  /\ filtered[i].DISTRICT[1] \in selected_districts

\* Nothing selected although the table has districts: rows with and without
\* a district both survive.
C2_Witness ==
    /\ PostMask
    /\ selected_districts = {}
    /\ \E i \in DOMAIN filtered : filtered[i].DISTRICT = NaN
    /\ \E i \in DOMAIN filtered : filtered[i].DISTRICT # NaN

\* The rows the date, district and UCR predicates select ("All" for shooting).
RowsBeforeShooting ==
    {df[j] : j \in {k \in DOMAIN df :
                       PassesDate(df[k]) /\ PassesDistrict(df[k]) /\ PassesUcr(df[k])}}

ShootingSelection(choice) ==
    Range(FilterRows(df, start_date, end_date, selected_districts, ucr_filter, choice))

\* C3: "Shooting only" keeps exactly the rows whose SHOOTING is present and
\* non-empty, "Non-shooting only" exactly those where it is "" or missing; the
\* two selections are disjoint and together are the selection of "All".
C3_ShootingChoicesPartition ==
    PostMask =>
        /\ shooting_filter = "Shooting only" =>
              Range(filtered) = {r \in RowsBeforeShooting : IsShooting(r)}
        /\ shooting_filter = "Non-shooting only" =>
              Range(filtered) = {r \in RowsBeforeShooting :
                                    r.SHOOTING = <<"">> \/ r.SHOOTING = NaN}
        /\ ShootingSelection("Shooting only") \cap ShootingSelection("Non-shooting only") = {}
        /\ ShootingSelection("Shooting only") \cup ShootingSelection("Non-shooting only")
           = ShootingSelection("All")
        /\ ShootingSelection("All") = RowsBeforeShooting

\* "Non-shooting only" keeps a row with "" and a row with no value.
C3_Witness ==
    /\ PostMask
    /\ shooting_filter = "Non-shooting only"
    /\ \E i \in DOMAIN filtered : filtered[i].SHOOTING = <<"">>
    /\ \E i \in DOMAIN filtered : filtered[i].SHOOTING = NaN

DaysOf(t) == {t[i].OCCURRED_ON_DATE[1] \div 24 : i \in DOMAIN t}
RowsOn(t, d) == {i \in DOMAIN t : t[i].OCCURRED_ON_DATE[1] \div 24 = d}
Counts(s) == [k \in DOMAIN s |-> s[k].count]

\* C4: the daily trend of a non-empty filtered table has one entry per
\* calendar day from the earliest to the latest day present, ascending, so
\* (max - min) + 1 entries; a day without incidents has count 0; the counts
\* sum to the number of filtered rows.
C4_DailyTrendCoversEveryDay ==
    pc \in {"rolling", "district"} =>
        /\ Len(daily_counts) = SetMax(DaysOf(filtered)) - SetMin(DaysOf(filtered)) + 1
        /\ \A k \in DOMAIN daily_counts :
              /\ daily_counts[k].date = SetMin(DaysOf(filtered)) + k - 1
              /\ RowsOn(filtered, daily_counts[k].date) = {} => daily_counts[k].count = 0
        /\ SumSeq(Counts(daily_counts)) = Len(filtered)

\* Incidents on two days with empty days between them.
C4_Witness ==
    /\ pc = "rolling"
    /\ Len(daily_counts) >= 3
    /\ \E k \in DOMAIN daily_counts : daily_counts[k].count = 0
    /\ \E k \in DOMAIN daily_counts : daily_counts[k].count > 1

WindowOf(i) == {k \in 1..i : k > i - 7}

RECURSIVE SumOver(_, _)
SumOver(x, S) ==
    IF S = {} THEN 0
    ELSE LET k == CHOOSE k \in S : TRUE IN x[k] + SumOver(x, S \ {k})

\* C5: rolling_7d of day i is the mean of the counts of the trailing window
\* ending at i, the first i days while fewer than 7 are available and the
\* last 7 after that, never padded and never looking ahead; counts 5, 0, 5
\* give 5, 5/2, 10/3.
C5_RollingMeanIsTrailingWindow ==
    /\ pc = "district" =>
          \A i \in DOMAIN daily_counts :
              /\ daily_counts[i].rolling_7d # NaN
              /\ daily_counts[i].rolling_7d[1].den > 0
              /\ daily_counts[i].rolling_7d[1].num * Cardinality(WindowOf(i))
                 = SumOver(Counts(daily_counts), WindowOf(i))
                   * daily_counts[i].rolling_7d[1].den
    /\ LET r == rolling_mean(<<5, 0, 5>>)
       IN  /\ r[1][1].num * 1 = 5 * r[1][1].den
           /\ r[2][1].num * 2 = 5 * r[2][1].den
           /\ r[3][1].num * 3 = 10 * r[3][1].den

\* A trend of eight days whose first day, with incidents, has left the window.
C5_Witness ==
    /\ pc = "district"
    /\ Len(daily_counts) >= 8
    /\ daily_counts[1].count > 0
    /\ daily_counts[8].rolling_7d[1].num * 7
       = SumOver(Counts(daily_counts), 2..8) * daily_counts[8].rolling_7d[1].den

\* The rows of the filtered table that carry an offense category, and the
\* categories that occur.
Categorised == {i \in DOMAIN filtered : filtered[i].OFFENSE_CODE_GROUP # NaN}
Categories == {filtered[i].OFFENSE_CODE_GROUP[1] : i \in Categorised}
RowsOfCategory(c) == {i \in Categorised : filtered[i].OFFENSE_CODE_GROUP = <<c>>}
OthersEntries == {k \in DOMAIN pie_data : pie_data[k].key = "Others"}

\* C6 as claimed: the counts of the offense breakdown of a non-empty filtered
\* table sum to its number of rows, and with at most 10 distinct categories
\* there is no "Others" entry.
C6_BreakdownSumsToRowCount ==
    pc = "geo" =>
        /\ SumSeq(Counts(pie_data)) = Len(filtered)
        /\ Cardinality(Categories) <= 10 => OthersEntries = {}

\* C6, amended: the counts of the offense breakdown sum to the number of rows
\* that have an offense category (rows without one are in no entry, and when
\* no row has one no breakdown is made); the entries are the 10 most frequent
\* categories, plus one "Others" entry holding the rows of the remaining
\* categories exactly when there are more than 10 categories.
C6_BreakdownSumsToCategorisedRows ==
    pc = "geo" =>
        /\ SumSeq(Counts(pie_data)) = Cardinality(Categorised)
        /\ ("pie" \in Range(out)) = (Categorised # {})
        /\ Cardinality(Categories) <= 10 =>
              /\ OthersEntries = {}
              /\ Len(pie_data) = Cardinality(Categories)
        /\ Cardinality(Categories) > 10 =>
              /\ Cardinality(OthersEntries) = 1
              /\ Len(pie_data) = 11
              /\ \A k \in OthersEntries : pie_data[k].count > 0
        /\ \A k \in DOMAIN pie_data \ OthersEntries :
              /\ pie_data[k].key \in Categories
              /\ pie_data[k].count = Cardinality(RowsOfCategory(pie_data[k].key))
              /\ \A c \in Categories \ {pie_data[j].key : j \in DOMAIN pie_data} :
                    Cardinality(RowsOfCategory(c)) <= pie_data[k].count

\* More than 10 categories, one of them frequent, and a row without category.
C6_Witness ==
    /\ pc = "geo"
    /\ OthersEntries # {}
    /\ \E i \in DOMAIN filtered : filtered[i].OFFENSE_CODE_GROUP = NaN
    /\ \E k \in DOMAIN pie_data : pie_data[k].key # "Others" /\ pie_data[k].count > 1

Located == {i \in DOMAIN filtered : filtered[i].Lat # NaN /\ filtered[i].Long # NaN}

\* C7: the map sample holds only rows of the filtered table that have both
\* coordinates, none twice, and at most cap of them; when no more than cap
\* rows have both coordinates it is those rows in their order, otherwise it
\* has exactly cap rows; a second run on the same input gives the same sample.
C7_GeoSampleIsCappedAndRepeatable ==
    pc = "done" =>
        /\ \A k \in DOMAIN geo :
              /\ geo[k] \in Range(filtered)
              /\ geo[k].Lat # NaN /\ geo[k].Long # NaN
        /\ \A j, k \in DOMAIN geo : j # k => geo[j].idx # geo[k].idx
        /\ Len(geo) <= GeoCap
        /\ Cardinality(Located) <= GeoCap =>
              /\ {geo[k].idx : k \in DOMAIN geo} = {filtered[i].idx : i \in Located}
              /\ IdxAscending(geo)
        /\ Cardinality(Located) > GeoCap => Len(geo) = GeoCap
        /\ runs = 2 => geo = prev_geo

\* The second run has sampled a table with more located rows than the cap and
\* a row without coordinates.
C7_Witness ==
    /\ pc = "done"
    /\ runs = 2
    /\ Cardinality(Located) > GeoCap
    /\ Cardinality(Located) < Len(filtered)
    /\ geo # <<>>

NoViews ==
    /\ kpi = NoKpi
    /\ daily_counts = <<>>
    /\ dist_counts = <<>>
    /\ pie_data = <<>>
    /\ geo = <<>>

\* C8: when the criteria match no row the run shows the empty-result notice
\* and stops with none of the later steps executed; when a row matches, the
\* notice is not shown and the run goes on to the aggregation.
C8_EmptyResultStopsTheRun ==
    (PostMask /\ pc # "guard") =>
        /\ filtered = <<>> =>
              /\ pc = "stopped"
              /\ out = <<"records", "warning">>
              /\ NoViews
        /\ filtered # <<>> =>
              /\ "warning" \notin Range(out)
              /\ pc \in {"kpi", "trend", "rolling", "district", "offense", "geo",
                         "done", "error"}

\* A loaded table with rows, none of which matches.
C8_Witness ==
    /\ pc = "stopped"
    /\ df # <<>>
    /\ out = <<"records", "warning">>

\* C9 as claimed: a file that lacks a required column ends in a failure raised
\* before any filtering: no mask, no filtered table, no KPI, no chart.
C9_MissingColumnFailsBeforeFiltering ==
    (uploaded_file # <<>> /\ pc # "start") =>
        (columns # RequiredColumns =>
            /\ ~PostMask
            /\ pc \in {"date_input", "unpack", "sidebar", "mask", "error"}
            /\ Range(out) \subseteq {"exception"})

\* C10 as claimed: a date widget value holding a single date is taken as
\* start = end = that date and the run does not fail on it (stated for files
\* that have every required column).
C10_SingleDateIsStartAndEnd ==
    (/\ pc \notin {"start", "date_input", "unpack"}
     /\ uploaded_file # <<>>
     /\ columns = RequiredColumns
     /\ Len(date_range.items) = 1) =>
        /\ exc = ""
        /\ start_date = date_range.items[1]
        /\ end_date = date_range.items[1]

====
